---- MODULE Spec2Model ----
(***************************************************************************)
(* Game-integrator transaction broker: the transaction coordinator         *)
(* (withdraw, deposit, cancel, revert), the per-user lock manager, the     *)
(* ledger tables and the outbox processor, as a state machine.             *)
(*                                                                         *)
(* Money is counted in thousandths of a currency unit (10 = 0.01), so that *)
(* an amount with three fractional digits (5 = 0.005) is representable.    *)
(* A database transaction is modelled at statement granularity under       *)
(* READ COMMITTED: a read sees what is committed when it runs, an insert   *)
(* followed directly by Commit is one step, SELECT ... FOR UPDATE holds a  *)
(* row lock until Commit or Rollback.                                      *)
(***************************************************************************)
EXTENDS Integers, Sequences, FiniteSets, TLC

(* ----------------------------- bounds ---------------------------------- *)
\* number of use-case invocations made by the HTTP clients in one behaviour
MaxOps == 2
\* wallet balance of every user when the behaviour starts (0.02)
InitBalance == 20
\* calls of Lock that the callers of the lock manager make in all
MaxLockCalls == 4

\* Start / Stop calls made on the Processor
MaxLoopCalls == 8

\* range of the status codes a WalletServiceError may carry
MinStatusCode == 390
MaxStatusCode == 510

(* ------------------------- program constants --------------------------- *)
maxRetries == 5

Clients == {"c1", "c2"}
Worker == "outbox"
Procs == Clients \cup {Worker}

Users == {1, 2}
UserCurrency == [u \in Users |-> IF u = 1 THEN "USD" ELSE "EUR"]
Currencies == {"USD", "EUR"}
\* caller-supplied provider transaction ids: of Withdraw and Cancel, and of Deposit
ProviderTxIDs == {"t1", "t2"}
DepositTxIDs == {"t2", "t3"}
\* caller-supplied amounts: 0 and 0.01
Amounts == {0, 10}

TransactionTypeWithdraw == "withdraw"
TransactionTypeDeposit == "deposit"
TransactionTypeCancel == "cancel"
TransactionTypeRevert == "revert"
TransactionStatusSyncing == "syncing"
TransactionStatusPending == "pending"
TransactionStatusCompleted == "completed"
TransactionStatusFailed == "failed"
TransactionStatusCancelled == "cancelled"
EventStatusPending == "PENDING"
EventStatusProcessed == "PROCESSED"
EventStatusFailed == "FAILED"

(* ------------------------------ state ---------------------------------- *)
VARIABLES
    txs,        \* table transactions: txs[i] is the row with id i
    rowLock,    \* rowLock[p]: id of the row p holds FOR UPDATE, 0 if none
    wallet,     \* remote wallet: balance of each user
    locks,      \* UserLockManager.locks: holder of each user's mutex
    waiting,    \* Lock goroutines still blocked in mu.Lock() after their caller gave up
    outbox,     \* table outbox_events, in creation order
    proc,       \* per process: position, arguments, local variables
    returned,   \* the call that returned in the last step, if one did
    opsLeft,    \* invocations the clients may still make
    dbFlaky     \* whether the database may refuse to open a transaction in this run

\* UserLockManager seen from inside: the sync.Map, the mutexes and the callers of Lock
VARIABLES
    lockMap,    \* the sync.Map locks: user id -> the mutex stored for it (NoMutex: none)
    mutex,      \* each sync.Mutex: "free" or "locked"
    lockCall,   \* each caller's position in Lock / Unlock, its user id and its mutex
    leaked,     \* per mutex, goroutines of timed-out Lock calls still blocked in mu.Lock()
    lockCalls   \* Lock calls the callers may still make

lockVars == <<lockMap, mutex, lockCall, leaked, lockCalls>>

\* the background loop of the outbox Processor and the callers of Start / Stop
VARIABLES
    isRunning,  \* Processor.isRunning
    ctxDone,    \* whether Processor.cancel() has been called (p.ctx is done)
    wg,         \* counter of Processor.wg
    workers,    \* the goroutines started by StartBackgroundProcessing, in order: position of each
    procMu,     \* holder of Processor.mu, "" when free
    stopCall,   \* per controller: "idle", or "wgWait" inside StopBackgroundProcessing
    loopCalls   \* Start / Stop calls the controllers may still make

loopVars == <<isRunning, ctxDone, wg, workers, procMu, stopCall, loopCalls>>

\* the error value a wallet call returned to the coordinator, and the branch taken on it
VARIABLES
    walletErr   \* [isWalletServiceError, StatusCode, branch]

\* the references of the deposit / withdraw calls the coordinator has sent to the wallet
VARIABLES
    walletCalls

vars == <<txs, rowLock, wallet, locks, waiting, outbox, proc, returned, opsLeft, dbFlaky,
          lockMap, mutex, lockCall, leaked, lockCalls,
          isRunning, ctxDone, wg, workers, procMu, stopCall, loopCalls, walletErr,
          walletCalls>>

NoRow ==
    [id |-> 0, user |-> 0, type |-> "", status |-> "", amount |-> 0, currency |-> "",
     ptx |-> "", parent |-> 0, oldb |-> 0, newb |-> 0]

NoOp == [kind |-> "", user |-> 0, amount |-> 0, ptx |-> "", parent |-> 0, currency |-> ""]

IdleProc ==
    [pc |-> "idle", op |-> NoOp, balance |-> 0, tx |-> NoRow, originalTx |-> NoRow,
     werr |-> "", wbal |-> 0, res |-> "", ret |-> "", batch |-> <<>>, created |-> 0]

NoReturn == [p |-> "", kind |-> "", ptx |-> "", res |-> "", tx |-> 0]

RowIds == 1..Len(txs)

\* the goroutines that call Lock and Unlock
Callers == Procs

\* a sync.Mutex is named by the call of getOrCreateMutex that allocated it (newMu)
Mutexes == Callers \X Users

NoMutex == <<>>

IdleCall == [pc |-> "idle", user |-> 0, newMu |-> NoMutex, mu |-> NoMutex]

\* the other variables, which the lock manager does not touch
ledgerVars ==
    <<txs, rowLock, wallet, locks, waiting, outbox, proc, returned, opsLeft, dbFlaky, walletCalls>>

\* NewUserLockManager: an empty map
LockManagerInit ==
    /\ lockMap = [u \in Users |-> NoMutex]
    /\ mutex = [m \in Mutexes |-> "free"]
    /\ lockCall = [c \in Callers |-> IdleCall]
    /\ leaked = [m \in Mutexes |-> 0]
    /\ lockCalls = MaxLockCalls

\* the goroutines that call StartBackgroundProcessing and StopBackgroundProcessing
Controllers == {"main", "shutdown"}

\* NewProcessor: a fresh context, no goroutine, isRunning false
NewProcessor ==
    /\ isRunning = FALSE
    /\ ctxDone = FALSE
    /\ wg = 0
    /\ workers = <<>>
    /\ procMu = ""
    /\ stopCall = [c \in Controllers |-> "idle"]
    /\ loopCalls = MaxLoopCalls

\* no wallet call has returned an error
NoWalletErr == [isWalletServiceError |-> FALSE, StatusCode |-> 0, branch |-> ""]

\* the errors walletSvc.Deposit / Withdraw may return: a *WalletServiceError with its
\* StatusCode (possibly wrapped), or an error of another type (StatusCode unused)
WalletErrors ==
    [isWalletServiceError : BOOLEAN, StatusCode : MinStatusCode..MaxStatusCode, branch : {""}]

(* ----------------------- TransactionRepository ------------------------- *)
\* rows whose provider_tx_id is id
RowsByProviderTxID(id) == {i \in RowIds : txs[i].ptx = id}

\* GetByProviderTxID: First() orders by primary key; NoRow is the nil result
GetByProviderTxID(id) ==
    IF RowsByProviderTxID(id) = {} THEN NoRow
    ELSE txs[CHOOSE i \in RowsByProviderTxID(id) : \A j \in RowsByProviderTxID(id) : i <= j]

GetByID(id) == IF id \in RowIds THEN txs[id] ELSE NoRow

\* the unique index on provider_tx_id rejects the insert of a second row with the id
UniqueViolation(id) == RowsByProviderTxID(id) /= {}

\* table transactions without the unique index on provider_tx_id
CreateFailsNoUniqueIndex(row) ==
    \/ row.amount <= 0
    \/ (row.parent /= 0 /\ row.parent \notin RowIds)

\* the constraints of table transactions that make an insert fail: the unique index,
\* CHECK (amount > 0), and the self foreign key of provider_withdrawn_tx_id
CreateFails(row) ==
    \/ UniqueViolation(row.ptx)
    \/ row.amount <= 0
    \/ (row.parent /= 0 /\ row.parent \notin RowIds)

\* Create: the sequence assigns the next id
Create(row) == Append(txs, [row EXCEPT !.id = Len(txs) + 1])

\* Update: gorm Save writes every column of the in-memory struct
Update(table, row) == [table EXCEPT ![row.id] = row]

\* createTransactionRecord
createTransactionRecord(userID, txType, amount, currency, providerTxID, oldBalance, newBalance, parent) ==
    [id |-> 0, user |-> userID, type |-> txType, status |-> TransactionStatusSyncing,
     amount |-> amount, currency |-> currency, ptx |-> providerTxID, parent |-> parent,
     oldb |-> oldBalance, newb |-> newBalance]

\* a row lock held by another process blocks FOR UPDATE reads and writes of the row
LockedByOther(p, id) == \E q \in Procs \ {p} : id /= 0 /\ rowLock[q] = id

(* --------------------------- input validation -------------------------- *)
\* validateAmount: positive, at most two fractional digits
validateAmount(amount) ==
    IF amount <= 0 THEN "INVALID_AMOUNT"
    ELSE IF amount % 10 /= 0 THEN "INVALID_PRECISION"
    ELSE "ok"

validateProviderTxID(providerTxID) == IF providerTxID = "" THEN "REQUIRED_FIELD" ELSE "ok"

\* validateWithdrawInput / validateDepositInput
validateInput(amount, providerTxID) ==
    IF validateAmount(amount) /= "ok" THEN validateAmount(amount)
    ELSE validateProviderTxID(providerTxID)

\* getUserAndValidate: the user exists (ids come from the token) and the currency matches
getUserAndValidate(userID, currency) ==
    IF userID \notin Users THEN "USER_NOT_FOUND"
    ELSE IF UserCurrency[userID] /= currency THEN "INVALID_CURRENCY"
    ELSE "ok"

\* validateTransactionOwnership
validateTransactionOwnership(tx, userID) == IF tx.user /= userID THEN "FORBIDDEN" ELSE "ok"

\* a status validation that only refuses a failed transaction
validateTransactionStatusNotFailed(tx, expectedStatus) ==
    IF tx.status = TransactionStatusFailed THEN "TRANSACTION_INVALID_STATUS" ELSE "ok"

\* validateTransactionStatus
validateTransactionStatus(tx, expectedStatus) ==
    IF tx.status /= expectedStatus THEN "TRANSACTION_INVALID_STATUS" ELSE "ok"

(* ------------------------------ wallet --------------------------------- *)
\* Outcomes of one wallet deposit/withdraw call as the coordinator sees it:
\*   ok    applied, balance returned        bad   applied, balance string unparsable
\*   e409  applied by an earlier attempt of the retrying client, answer 409
\*   e4xx  rejected                         e5xx  server error or transport failure
WalletOutcomes == {"ok", "bad", "e409", "e4xx", "e5xx"}
Applies(o) == o \in {"ok", "bad", "e409"}

\* a wallet that answers deposits without crediting them
WalletAfterNoCredit(kind, u, amount, o) ==
    IF ~Applies(o) \/ kind = "deposit" THEN wallet
    ELSE [wallet EXCEPT ![u] = @ - amount]

\* balance after a call of kind "deposit"/"withdraw" with outcome o
WalletAfter(kind, u, amount, o) ==
    IF ~Applies(o) THEN wallet
    ELSE IF kind = "deposit" THEN [wallet EXCEPT ![u] = @ + amount]
    ELSE [wallet EXCEPT ![u] = @ - amount]

\* the wallet never debits below zero
WalletPossible(kind, u, amount, o) ==
    (Applies(o) /\ kind = "withdraw") => wallet[u] >= amount

\* is409Error / is4xxError: 409 is tested first
is409Error(o) == o = "e409"
is4xxError(o) == o \in {"e4xx", "e409"}

(* ------------------------------- Init ---------------------------------- *)
\* the row an earlier successful Withdraw(1, 0.01, "t1", "USD") left in the ledger
EarlierWithdraw ==
    [id |-> 1, user |-> 1, type |-> TransactionTypeWithdraw, status |-> TransactionStatusPending,
     amount |-> 10, currency |-> "USD", ptx |-> "t1", parent |-> 0,
     oldb |-> InitBalance + 10, newb |-> InitBalance]

\* the process starts on an empty ledger, or on one that holds a pending withdraw
Init ==
    /\ txs \in {<<>>, <<EarlierWithdraw>>}
    /\ rowLock = [p \in Procs |-> 0]
    /\ wallet = [u \in Users |-> InitBalance]
    /\ locks = [u \in Users |-> "free"]
    /\ waiting = [u \in Users |-> 0]
    /\ outbox = <<>>
    /\ proc = [p \in Procs |-> IdleProc]
    /\ returned = NoReturn
    /\ opsLeft = MaxOps
    /\ dbFlaky = FALSE
    /\ LockManagerInit
    /\ NewProcessor
    /\ walletErr = NoWalletErr
    /\ walletCalls = {}

(* --------------------------- control helpers --------------------------- *)
\* the call of p returns r to its caller (kind, ptx: the operation called and its
\* provider_tx_id argument; tx: id of the intent row it created, 0 if none)
Return(p, r) ==
    [p |-> p, kind |-> proc[p].op.kind, ptx |-> proc[p].op.ptx, res |-> r, tx |-> proc[p].created]

\* setupTransactionDB: Begin succeeds, or fails when the database is unreliable
DbUp(up) == up \/ dbFlaky

\* a request is served by the first idle handler
Dispatch(p) ==
    /\ p \in Clients /\ proc[p].pc = "idle" /\ opsLeft > 0
    /\ \A q \in Clients : (q = "c1" /\ p = "c2") => proc[q].pc /= "idle"

\* arguments an HTTP client may pass
Ops ==
    [kind : {"withdraw"}, user : Users, amount : Amounts, ptx : ProviderTxIDs,
     parent : {0}, currency : Currencies]
    \cup
    [kind : {"deposit"}, user : Users, amount : Amounts, ptx : DepositTxIDs,
     parent : 1..(Len(txs) + 1), currency : Currencies]
    \cup
    [kind : {"cancel"}, user : Users, amount : {0}, ptx : ProviderTxIDs,
     parent : {0}, currency : {""}]

(* ------------------------------ withdraw ------------------------------- *)
\* withdraw, entry: a client calls Withdraw; getBalance, then validateWithdrawInput
withdraw(p) ==
    /\ Dispatch(p)
    /\ opsLeft' = opsLeft - 1
    /\ \E o \in Ops, up \in BOOLEAN :
          /\ o.kind = "withdraw"
          /\ IF ~up
             THEN /\ proc' = proc
                  /\ returned' = [p |-> p, kind |-> o.kind, ptx |-> o.ptx, res |-> "WALLET_SERVICE_ERROR:500", tx |-> 0]
             ELSE IF validateInput(o.amount, o.ptx) /= "ok"
             THEN /\ proc' = proc
                  /\ returned' = [p |-> p, kind |-> o.kind, ptx |-> o.ptx, res |-> validateInput(o.amount, o.ptx), tx |-> 0]
             ELSE /\ proc' = [proc EXCEPT ![p] =
                          [IdleProc EXCEPT !.pc = "wCheck", !.op = o, !.balance = wallet[o.user]]]
                  /\ returned' = NoReturn
    /\ UNCHANGED <<txs, rowLock, wallet, locks, waiting, outbox, dbFlaky>>
    /\ UNCHANGED <<lockVars, loopVars, walletErr, walletCalls>>

\* checkProviderTxIDExists
checkProviderTxIDExists(providerTxID) ==
    IF GetByProviderTxID(providerTxID) /= NoRow THEN "TRANSACTION_ALREADY_EXISTS" ELSE "ok"

\* withdraw, Phase A reads: Begin, checkProviderTxIDExists (no lock), getUserAndValidate
withdrawCheck(p) ==
    /\ proc[p].pc = "wCheck"
    /\ LET o == proc[p].op
           r == IF checkProviderTxIDExists(o.ptx) /= "ok" THEN checkProviderTxIDExists(o.ptx)
                ELSE getUserAndValidate(o.user, o.currency)
       IN  \E up \in BOOLEAN :
             /\ DbUp(up)
             /\ IF ~up
                THEN /\ returned' = Return(p, "DATABASE_CONNECTION_ERROR")
                     /\ proc' = [proc EXCEPT ![p] = IdleProc]
                ELSE IF r /= "ok"
                THEN /\ returned' = Return(p, r)
                     /\ proc' = [proc EXCEPT ![p] = IdleProc]
                ELSE /\ returned' = NoReturn
                     /\ proc' = [proc EXCEPT ![p].pc = "wCreate",
                                   ![p].tx = createTransactionRecord(o.user, TransactionTypeWithdraw,
                                        o.amount, o.currency, o.ptx,
                                        proc[p].balance, proc[p].balance - o.amount, 0)]
    /\ UNCHANGED <<txs, rowLock, wallet, locks, waiting, outbox, opsLeft, dbFlaky>>
    /\ UNCHANGED <<lockVars, loopVars, walletErr, walletCalls>>

\* withdraw, Phase A write: Create and Commit; a rejected insert rolls back
withdrawCreate(p) ==
    /\ proc[p].pc = "wCreate"
    /\ IF CreateFails(proc[p].tx)
       THEN /\ returned' = Return(p, "DATABASE_QUERY_ERROR")
            /\ proc' = [proc EXCEPT ![p] = IdleProc]
            /\ txs' = txs
       ELSE /\ returned' = NoReturn
            /\ txs' = Create(proc[p].tx)
            /\ proc' = [proc EXCEPT ![p].pc = "wWallet", ![p].tx.id = Len(txs) + 1,
                                    ![p].created = Len(txs) + 1]
    /\ UNCHANGED <<rowLock, wallet, locks, waiting, outbox, opsLeft, dbFlaky>>
    /\ UNCHANGED <<lockVars, loopVars, walletErr, walletCalls>>

\* createWalletRequest: the reference of the call is the provider_tx_id of the intent row
Reference(p) == proc[p].tx.ptx

\* walletSvc.Withdraw / walletSvc.Deposit for the intent row of p
WalletCall(p, at, kind, conflict, next) ==
    /\ proc[p].pc = at
    /\ \E o \in WalletOutcomes :
          /\ WalletPossible(kind, proc[p].tx.user, proc[p].tx.amount, o)
          /\ wallet' = WalletAfter(kind, proc[p].tx.user, proc[p].tx.amount, o)
          /\ proc' = [proc EXCEPT ![p].werr = o,
                         ![p].wbal = IF o = "ok" THEN wallet'[proc[p].tx.user] ELSE 0,
                         ![p].pc = IF is409Error(o) THEN conflict ELSE next]
    /\ walletCalls' = walletCalls \cup {Reference(p)}
    /\ returned' = NoReturn
    /\ UNCHANGED <<txs, rowLock, locks, waiting, outbox, opsLeft, dbFlaky>>
    /\ UNCHANGED <<lockVars, loopVars, walletErr>>

\* getBalance inside a 409 handler: the balance, or an error
ConflictGetBalance(p, at, next) ==
    /\ proc[p].pc = at
    /\ \E up \in BOOLEAN :
          proc' = [proc EXCEPT ![p].werr = IF up THEN "e409" ELSE "e409nobalance",
                               ![p].wbal = IF up THEN wallet[proc[p].tx.user] ELSE 0,
                               ![p].pc = next]
    /\ returned' = NoReturn
    /\ UNCHANGED <<txs, rowLock, wallet, locks, waiting, outbox, opsLeft, dbFlaky>>
    /\ UNCHANGED <<lockVars, loopVars, walletErr, walletCalls>>

withdrawWallet(p) == WalletCall(p, "wWallet", "withdraw", "w409", "wResult")

\* handle409Conflict: getBalance
withdraw409(p) == ConflictGetBalance(p, "w409", "wResult")

\* publishCompensationEvent: a withdraw row yields a PENDING WITHDRAW_REVERT event
publishCompensationEvent(tx) ==
    IF tx.type = TransactionTypeWithdraw
    THEN Append(outbox, [user |-> tx.user, amount |-> tx.amount, ptx |-> tx.ptx,
                         status |-> EventStatusPending, retry |-> 0, error |-> ""])
    ELSE outbox

\* balances b, in thousandths, below 0.1 for which the float64 difference b - 0.01 is
\* not the float64 nearest to the decimal difference (0.03 - 0.01 gives
\* 0.019999999999999997, not 0.02)
InexactMinusCent ==
    {11, 13, 15, 17, 18, 21, 22, 25, 28, 29, 30, 31, 36, 37, 38, 39, 43, 44, 45, 51, 52,
     59, 60, 69, 70, 71, 72, 81, 82, 83, 84, 85, 96, 97, 98, 99, 100}

\* handle409Conflict: expectedBalance := balance - amount; currentBalance != expectedBalance,
\* all three float64
balanceDiffers(balance, amount, currentBalance) ==
    \/ currentBalance /= balance - amount
    \/ (amount = 10 /\ balance \in InexactMinusCent)

\* a Phase B that books the success from the balance read before Phase A instead of
\* the balance the wallet answered
withdrawOutcomeRowFromRead(tx, werr, wbal, balance) ==
    IF werr = "ok"
    THEN [tx EXCEPT !.status = TransactionStatusPending, !.oldb = balance, !.newb = balance - tx.amount]
    ELSE IF werr \in {"e409", "e409nobalance"}
    THEN [tx EXCEPT !.status = TransactionStatusFailed, !.oldb = balance, !.newb = balance - tx.amount]
    ELSE [tx EXCEPT !.status = TransactionStatusFailed]

\* the row withdraw writes in Phase B (handle409Conflict, handleTransactionFailure,
\* handleBalanceParseError, or the success path)
withdrawOutcomeRow(tx, werr, wbal, balance) ==
    IF werr = "ok"
    THEN [tx EXCEPT !.status = TransactionStatusPending, !.oldb = wbal + tx.amount, !.newb = wbal]
    ELSE IF werr = "e409nobalance"
    THEN [tx EXCEPT !.status = TransactionStatusFailed, !.oldb = balance, !.newb = balance - tx.amount]
    ELSE IF werr = "e409" /\ balanceDiffers(balance, tx.amount, wbal)
    THEN [tx EXCEPT !.status = TransactionStatusFailed, !.oldb = balance, !.newb = wbal]
    ELSE IF werr = "e409"
    THEN [tx EXCEPT !.status = TransactionStatusPending, !.oldb = wbal + tx.amount, !.newb = wbal]
    ELSE [tx EXCEPT !.status = TransactionStatusFailed]

\* a failure path that reports every wallet failure as a client error
withdrawResultCodeClientError(werr) ==
    IF werr \in {"ok", "e409"} THEN "ok"
    ELSE IF werr = "bad" THEN "INVALID_FORMAT:400"
    ELSE "WALLET_SERVICE_ERROR:400"

\* a failure path that reports every wallet failure as a server error
withdrawResultCodeServerError(werr) ==
    IF werr \in {"ok", "e409"} THEN "ok"
    ELSE IF werr = "bad" THEN "INVALID_FORMAT:400"
    ELSE "WALLET_SERVICE_ERROR:500"

\* what withdraw returns once Phase B has committed
withdrawResultCode(werr) ==
    IF werr \in {"ok", "e409"} THEN "ok"
    ELSE IF werr = "bad" THEN "INVALID_FORMAT:400"
    ELSE IF werr = "e4xx" THEN "WALLET_SERVICE_ERROR:400"
    ELSE "WALLET_SERVICE_ERROR:500"

\* withdraw, Phase B: Begin, Update, Commit; a failed 409 reconciliation goes on to Revert
withdrawResult(p) ==
    /\ proc[p].pc = "wResult"
    /\ LET row == withdrawOutcomeRow(proc[p].tx, proc[p].werr, proc[p].wbal, proc[p].balance)
           toRevert == proc[p].werr \in {"e409", "e409nobalance"} /\ row.status = TransactionStatusFailed
       IN  /\ txs' = Update(txs, row)
           /\ outbox' = IF proc[p].werr = "e5xx" THEN publishCompensationEvent(row) ELSE outbox
           /\ IF toRevert
              THEN /\ returned' = NoReturn
                   /\ proc' = [proc EXCEPT ![p] = [IdleProc EXCEPT !.pc = "rvCheck", !.op = proc[p].op,
                                   !.ret = "withdraw", !.created = proc[p].created]]
              ELSE /\ returned' = Return(p, withdrawResultCode(proc[p].werr))
                   /\ proc' = [proc EXCEPT ![p] = IdleProc]
    /\ UNCHANGED <<rowLock, wallet, locks, waiting, opsLeft, dbFlaky>>
    /\ UNCHANGED <<lockVars, loopVars, walletErr, walletCalls>>

(* ------------------------------- outbox -------------------------------- *)
RECURSIVE PendingFrom(_)
\* GetPendingEvents: the PENDING events in creation order, as the worker reads them
PendingFrom(i) ==
    IF i > Len(outbox) THEN <<>>
    ELSE IF outbox[i].status = EventStatusPending
         THEN <<[id |-> i, retry |-> outbox[i].retry]>> \o PendingFrom(i + 1)
         ELSE PendingFrom(i + 1)

GetPendingEvents == PendingFrom(1)

MarkAsProcessed(id) == [outbox EXCEPT ![id].status = EventStatusProcessed]
MarkAsFailed(id, errMsg) == [outbox EXCEPT ![id].status = EventStatusFailed, ![id].error = errMsg]
IncrementRetryCount(id) == [outbox EXCEPT ![id].retry = @ + 1]

\* a loop body that never gives an event up: past maxRetries it leaves the event as it is
ProcessEventOutcomeNoGiveUp(h, r) ==
    IF r = "ok" THEN MarkAsProcessed(h.id)
    ELSE IF h.retry < maxRetries THEN IncrementRetryCount(h.id)
    ELSE outbox

\* ProcessEvents, loop body after ProcessEvent returned r for the event snapshot h
ProcessEventOutcome(h, r) ==
    IF r = "ok" THEN MarkAsProcessed(h.id)
    ELSE IF h.retry < maxRetries THEN IncrementRetryCount(h.id)
    ELSE MarkAsFailed(h.id, "failed to revert withdrawal using transaction use case: " \o r)

\* the worker after the event at the head of its batch is dealt with
NextEvent(p) ==
    IF Tail(proc[p].batch) = <<>> THEN IdleProc
    ELSE [IdleProc EXCEPT !.pc = "evNext", !.batch = Tail(proc[p].batch)]

\* ProcessEvents: one tick; reads the pending events
ProcessEvents(p) ==
    /\ p = Worker /\ proc[p].pc = "idle"
    /\ GetPendingEvents /= <<>>
    /\ proc' = [proc EXCEPT ![p].pc = "evNext", ![p].batch = GetPendingEvents]
    /\ returned' = NoReturn
    /\ UNCHANGED <<txs, rowLock, wallet, locks, waiting, outbox, opsLeft, dbFlaky>>
    /\ UNCHANGED <<lockVars, loopVars, walletErr, walletCalls>>

\* handleWithdrawRevert that calls Revert whatever the amount of the event
handleWithdrawRevertAnyAmount(p) ==
    /\ proc[p].pc = "evNext"
    /\ LET h == Head(proc[p].batch)
           e == outbox[h.id]
       IN  /\ outbox' = outbox
           /\ proc' = [proc EXCEPT ![p].pc = "rvCheck", ![p].ret = "outbox",
                          ![p].op = [kind |-> "revert", user |-> e.user, amount |-> e.amount,
                                     ptx |-> e.ptx, parent |-> 0, currency |-> ""]]
    /\ returned' = NoReturn
    /\ UNCHANGED <<txs, rowLock, wallet, locks, waiting, opsLeft, dbFlaky>>
    /\ UNCHANGED <<lockVars, loopVars, walletErr, walletCalls>>

\* handleWithdrawRevert up to the call of Revert
handleWithdrawRevert(p) ==
    /\ proc[p].pc = "evNext"
    /\ LET h == Head(proc[p].batch)
           e == outbox[h.id]
       IN  IF e.amount = 0
           THEN /\ outbox' = MarkAsProcessed(h.id)
                /\ proc' = [proc EXCEPT ![p] = NextEvent(p)]
           ELSE /\ outbox' = outbox
                /\ proc' = [proc EXCEPT ![p].pc = "rvCheck", ![p].ret = "outbox",
                               ![p].op = [kind |-> "revert", user |-> e.user, amount |-> e.amount,
                                          ptx |-> e.ptx, parent |-> 0, currency |-> ""]]
    /\ returned' = NoReturn
    /\ UNCHANGED <<txs, rowLock, wallet, locks, waiting, opsLeft, dbFlaky>>
    /\ UNCHANGED <<lockVars, loopVars, walletErr, walletCalls>>

(* ------------------------------- Revert -------------------------------- *)
\* a handle409Conflict that answers 409 whatever Revert returned
RevertCallerResultIgnoresError(p, r) ==
    IF proc[p].ret = "withdraw" THEN "CONCURRENT_MODIFICATION:409" ELSE r

\* what the caller of Revert does with its result r: handle409Conflict returns to the
\* client, handleWithdrawRevert and ProcessEvents record the outcome of the event
RevertCallerResult(p, r) ==
    IF proc[p].ret = "withdraw"
    THEN IF r = "ok" THEN "CONCURRENT_MODIFICATION:409" ELSE "WALLET_SERVICE_ERROR:500"
    ELSE r

RevertReturns(p, r) ==
    /\ returned' = Return(p, RevertCallerResult(p, r))
    /\ IF proc[p].ret = "outbox"
       THEN /\ outbox' = ProcessEventOutcome(Head(proc[p].batch), r)
            /\ proc' = [proc EXCEPT ![p] = NextEvent(p)]
       ELSE /\ outbox' = outbox
            /\ proc' = [proc EXCEPT ![p] = IdleProc]

\* Revert called through the use-case interface
Revert(p) ==
    /\ Dispatch(p)
    /\ opsLeft' = opsLeft - 1
    /\ \E u \in Users, id \in ProviderTxIDs, a \in Amounts :
          proc' = [proc EXCEPT ![p] = [IdleProc EXCEPT !.pc = "rvCheck", !.ret = "direct",
                       !.op = [kind |-> "revert", user |-> u, amount |-> a, ptx |-> id,
                               parent |-> 0, currency |-> ""]]]
    /\ returned' = NoReturn
    /\ UNCHANGED <<txs, rowLock, wallet, locks, waiting, outbox, dbFlaky>>
    /\ UNCHANGED <<lockVars, loopVars, walletErr, walletCalls>>

\* Phase A reads of Revert whose gate looks the origin id up instead of the revert id
revertCheckGateOnOrigin(p) ==
    /\ proc[p].pc = "rvCheck"
    /\ LET o == proc[p].op
       IN  \E up \in BOOLEAN :
             /\ DbUp(up)
             /\ IF ~up THEN RevertReturns(p, "DATABASE_CONNECTION_ERROR")
                ELSE IF o.user \notin Users THEN RevertReturns(p, "USER_NOT_FOUND")
                ELSE IF GetByProviderTxID(o.ptx) /= NoRow THEN RevertReturns(p, "ok")
                ELSE /\ proc' = [proc EXCEPT ![p].pc = "rvOrigin"]
                     /\ returned' = NoReturn
                     /\ outbox' = outbox
    /\ UNCHANGED <<txs, rowLock, wallet, locks, waiting, opsLeft, dbFlaky>>
    /\ UNCHANGED <<lockVars, loopVars, walletErr, walletCalls>>

\* Revert, Phase A reads: Begin, the user, the idempotency gate
revertCheck(p) ==
    /\ proc[p].pc = "rvCheck"
    /\ LET o == proc[p].op
       IN  \E up \in BOOLEAN :
             /\ DbUp(up)
             /\ IF ~up THEN RevertReturns(p, "DATABASE_CONNECTION_ERROR")
                ELSE IF o.user \notin Users THEN RevertReturns(p, "USER_NOT_FOUND")
                ELSE IF GetByProviderTxID("revert_" \o o.ptx) /= NoRow THEN RevertReturns(p, "ok")
                ELSE /\ proc' = [proc EXCEPT ![p].pc = "rvOrigin"]
                     /\ returned' = NoReturn
                     /\ outbox' = outbox
    /\ UNCHANGED <<txs, rowLock, wallet, locks, waiting, opsLeft, dbFlaky>>
    /\ UNCHANGED <<lockVars, loopVars, walletErr, walletCalls>>

\* Phase A of a Revert that does not look at the status of the origin
revertOriginAnyStatus(p) ==
    /\ proc[p].pc = "rvOrigin"
    /\ LET o == proc[p].op
           originTx == GetByProviderTxID(o.ptx)
       IN  /\ ~LockedByOther(p, originTx.id)
           /\ IF originTx = NoRow
              THEN /\ proc' = [proc EXCEPT ![p] = [IdleProc EXCEPT !.pc = "crashed"]]
                   /\ returned' = Return(p, "panic")
                   /\ UNCHANGED <<rowLock, outbox>>
              ELSE /\ proc' = [proc EXCEPT ![p].pc = "rvCreate", ![p].originalTx = originTx,
                                  ![p].tx = createTransactionRecord(o.user, TransactionTypeRevert,
                                       o.amount, originTx.currency, "revert_" \o o.ptx, 0, 0, originTx.id)]
                   /\ rowLock' = [rowLock EXCEPT ![p] = originTx.id]
                   /\ returned' = NoReturn
                   /\ outbox' = outbox
    /\ UNCHANGED <<txs, wallet, locks, waiting, opsLeft, dbFlaky>>
    /\ UNCHANGED <<lockVars, loopVars, walletErr, walletCalls>>

\* Revert, Phase A: GetByProviderTxIDForUpdate(origin); the nil origin is dereferenced
revertOrigin(p) ==
    /\ proc[p].pc = "rvOrigin"
    /\ LET o == proc[p].op
           originTx == GetByProviderTxID(o.ptx)
       IN  /\ ~LockedByOther(p, originTx.id)
           /\ IF originTx = NoRow
              THEN /\ proc' = [proc EXCEPT ![p] = [IdleProc EXCEPT !.pc = "crashed"]]
                   /\ returned' = Return(p, "panic")
                   /\ UNCHANGED <<rowLock, outbox>>
              ELSE IF originTx.status /= TransactionStatusFailed
              THEN /\ RevertReturns(p, "ok")
                   /\ UNCHANGED rowLock
              ELSE /\ proc' = [proc EXCEPT ![p].pc = "rvCreate", ![p].originalTx = originTx,
                                  ![p].tx = createTransactionRecord(o.user, TransactionTypeRevert,
                                       o.amount, originTx.currency, "revert_" \o o.ptx, 0, 0, originTx.id)]
                   /\ rowLock' = [rowLock EXCEPT ![p] = originTx.id]
                   /\ returned' = NoReturn
                   /\ outbox' = outbox
    /\ UNCHANGED <<txs, wallet, locks, waiting, opsLeft, dbFlaky>>
    /\ UNCHANGED <<lockVars, loopVars, walletErr, walletCalls>>

\* Revert, Phase A write: Create and Commit (or Rollback), which releases the origin
revertCreate(p) ==
    /\ proc[p].pc = "rvCreate"
    /\ rowLock' = [rowLock EXCEPT ![p] = 0]
    /\ IF CreateFails(proc[p].tx)
       THEN /\ RevertReturns(p, "DATABASE_QUERY_ERROR")
            /\ txs' = txs
       ELSE /\ txs' = Create(proc[p].tx)
            /\ proc' = [proc EXCEPT ![p].pc = "rvWallet", ![p].tx.id = Len(txs) + 1,
                           ![p].created = IF proc[p].ret = "withdraw" THEN @ ELSE Len(txs) + 1]
            /\ returned' = NoReturn
            /\ outbox' = outbox
    /\ UNCHANGED <<wallet, locks, waiting, opsLeft, dbFlaky>>
    /\ UNCHANGED <<lockVars, loopVars, walletErr, walletCalls>>

revertWallet(p) == WalletCall(p, "rvWallet", "deposit", "rv409", "rvResult")

\* handleRevert409Conflict: getBalance
revert409(p) == ConflictGetBalance(p, "rv409", "rvResult")

\* the row a crediting operation (deposit, cancel, revert) writes for its own intent
creditOutcomeRow(tx, werr, wbal) ==
    IF werr \in {"ok", "e409"}
    THEN [tx EXCEPT !.status = TransactionStatusCompleted, !.oldb = wbal - tx.amount, !.newb = wbal]
    ELSE IF werr = "e409nobalance" THEN tx
    ELSE [tx EXCEPT !.status = TransactionStatusFailed]

\* what a crediting operation returns after Phase B
creditResultCode(werr) ==
    IF werr \in {"ok", "e409"} THEN "ok"
    ELSE IF werr = "bad" THEN "INVALID_FORMAT:400"
    ELSE IF werr = "e4xx" THEN "WALLET_SERVICE_ERROR:400"
    ELSE "WALLET_SERVICE_ERROR:500"

\* Revert, Phase B: Begin, Update, Commit; a failed balance read after 409 writes nothing
revertResult(p) ==
    /\ proc[p].pc = "rvResult"
    /\ txs' = IF proc[p].werr = "e409nobalance" THEN txs
              ELSE Update(txs, creditOutcomeRow(proc[p].tx, proc[p].werr, proc[p].wbal))
    /\ RevertReturns(p, creditResultCode(proc[p].werr))
    /\ UNCHANGED <<rowLock, wallet, locks, waiting, opsLeft, dbFlaky>>
    /\ UNCHANGED <<lockVars, loopVars, walletErr, walletCalls>>

(* --------------------------- UserLockManager --------------------------- *)
\* Lock: the goroutine of the call gets the mutex at once when it is free; when it is
\* held the caller gives up after the 5-second ceiling and the goroutine stays blocked
LockAcquired(p, u) == [locks EXCEPT ![u] = p]
LockTimedOut(u) == [waiting EXCEPT ![u] = @ + 1]

\* Unlock
Unlock(u) == [locks EXCEPT ![u] = "free"]

\* a goroutine left behind by a timed-out Lock gets the mutex; nobody unlocks it
abandonedLock(u) ==
    /\ waiting[u] > 0 /\ locks[u] = "free"
    /\ locks' = [locks EXCEPT ![u] = "abandoned"]
    /\ waiting' = [waiting EXCEPT ![u] = @ - 1]
    /\ returned' = NoReturn
    /\ UNCHANGED <<txs, rowLock, wallet, outbox, proc, opsLeft, dbFlaky>>
    /\ UNCHANGED <<lockVars, loopVars, walletErr, walletCalls>>

\* entry of deposit and cancel that does not take the user lock
UnlockedEntry(p, kind, first) ==
    /\ Dispatch(p)
    /\ opsLeft' = opsLeft - 1
    /\ \E o \in Ops :
          /\ o.kind = kind
          /\ LET v == IF kind = "deposit" THEN validateInput(o.amount, o.ptx) ELSE "ok"
             IN  IF v /= "ok"
                 THEN /\ returned' = [p |-> p, kind |-> o.kind, ptx |-> o.ptx, res |-> v, tx |-> 0]
                      /\ proc' = proc
                 ELSE /\ proc' = [proc EXCEPT ![p] = [IdleProc EXCEPT !.pc = first, !.op = o]]
                      /\ returned' = NoReturn
    /\ UNCHANGED <<txs, rowLock, wallet, locks, waiting, outbox, dbFlaky>>
    /\ UNCHANGED <<lockVars, loopVars, walletErr, walletCalls>>

\* entry of deposit and cancel: lockUser, then the input validation v of the operation
LockedEntry(p, kind, first) ==
    /\ Dispatch(p)
    /\ opsLeft' = opsLeft - 1
    /\ \E o \in Ops :
          /\ o.kind = kind
          /\ LET v == IF kind = "deposit" THEN validateInput(o.amount, o.ptx) ELSE "ok"
             IN  IF locks[o.user] /= "free"
                 THEN /\ waiting' = LockTimedOut(o.user)
                      /\ returned' = [p |-> p, kind |-> o.kind, ptx |-> o.ptx, res |-> "LOCK_TIMEOUT", tx |-> 0]
                      /\ UNCHANGED <<locks, proc>>
                 ELSE IF v /= "ok"
                 THEN /\ returned' = [p |-> p, kind |-> o.kind, ptx |-> o.ptx, res |-> v, tx |-> 0]
                      /\ UNCHANGED <<locks, waiting, proc>>
                 ELSE /\ locks' = LockAcquired(p, o.user)
                      /\ proc' = [proc EXCEPT ![p] = [IdleProc EXCEPT !.pc = first, !.op = o]]
                      /\ returned' = NoReturn
                      /\ waiting' = waiting
    /\ UNCHANGED <<txs, rowLock, wallet, outbox, dbFlaky>>
    /\ UNCHANGED <<lockVars, loopVars, walletErr, walletCalls>>

\* a locked operation returns r: the deferred unlockUser runs
LockedReturn(p, r) ==
    /\ returned' = Return(p, r)
    /\ proc' = [proc EXCEPT ![p] = IdleProc]
    /\ locks' = Unlock(proc[p].op.user)

(* ------------------ UserLockManager, step by step ---------------------- *)
\* a map write that keeps the mutex of the caller whether or not one was stored before
StoreNew(m, u, newMu) == [m EXCEPT ![u] = newMu]

\* sync.Map LoadOrStore: the map after the call; the value it returns is the entry of u
LoadOrStore(m, u, newMu) == IF m[u] = NoMutex THEN [m EXCEPT ![u] = newMu] ELSE m

\* Lock, up to the Load of getOrCreateMutex: a hit returns the stored mutex and the
\* goroutine is started; a miss allocates newMu
Lock(c) ==
    /\ lockCall[c].pc = "idle"
    /\ lockCalls > 0
    /\ lockCalls' = lockCalls - 1
    /\ \E u \in Users :
          lockCall' = [lockCall EXCEPT ![c] =
              IF lockMap[u] /= NoMutex
              THEN [pc |-> "wait", user |-> u, newMu |-> NoMutex, mu |-> lockMap[u]]
              ELSE [pc |-> "store", user |-> u, newMu |-> <<c, u>>, mu |-> NoMutex]]
    /\ UNCHANGED <<lockMap, mutex, leaked>>
    /\ UNCHANGED <<ledgerVars, loopVars, walletErr>>

\* getOrCreateMutex after a miss: LoadOrStore, then Lock starts its goroutine
getOrCreateMutex(c) ==
    /\ lockCall[c].pc = "store"
    /\ lockMap' = LoadOrStore(lockMap, lockCall[c].user, lockCall[c].newMu)
    /\ lockCall' = [lockCall EXCEPT ![c].pc = "wait", ![c].mu = lockMap'[lockCall[c].user]]
    /\ UNCHANGED <<mutex, leaked, lockCalls>>
    /\ UNCHANGED <<ledgerVars, loopVars, walletErr>>

\* the goroutine of Lock: mu.Lock() returns, close(lockChan)
lockGoroutine(c) ==
    /\ lockCall[c].pc = "wait"
    /\ mutex[lockCall[c].mu] = "free"
    /\ mutex' = [mutex EXCEPT ![lockCall[c].mu] = "locked"]
    /\ lockCall' = [lockCall EXCEPT ![c].pc = "closed"]
    /\ UNCHANGED <<lockMap, leaked, lockCalls>>
    /\ UNCHANGED <<ledgerVars, loopVars, walletErr>>

\* select, case <-lockChan: Lock returns nil
LockReturnsNil(c) ==
    /\ lockCall[c].pc = "closed"
    /\ lockCall' = [lockCall EXCEPT ![c].pc = "held"]
    /\ UNCHANGED <<lockMap, mutex, leaked, lockCalls>>
    /\ UNCHANGED <<ledgerVars, loopVars, walletErr>>

\* select, case <-ctx.Done() or <-time.After(5s): Lock returns an error. Its goroutine
\* stays: still blocked in mu.Lock(), or already owning a mutex that nobody will unlock
LockReturnsError(c) ==
    /\ lockCall[c].pc \in {"wait", "closed"}
    /\ leaked' = IF lockCall[c].pc = "wait" THEN [leaked EXCEPT ![lockCall[c].mu] = @ + 1]
                 ELSE leaked
    /\ lockCall' = [lockCall EXCEPT ![c] = IdleCall]
    /\ UNCHANGED <<lockMap, mutex, lockCalls>>
    /\ UNCHANGED <<ledgerVars, loopVars, walletErr>>

\* the goroutine of a Lock that returned an error gets the mutex
leakedGoroutine(m) ==
    /\ leaked[m] > 0
    /\ mutex[m] = "free"
    /\ mutex' = [mutex EXCEPT ![m] = "locked"]
    /\ leaked' = [leaked EXCEPT ![m] = @ - 1]
    /\ UNCHANGED <<lockMap, lockCall, lockCalls>>
    /\ UNCHANGED <<ledgerVars, loopVars, walletErr>>

\* Unlock by the caller whose Lock returned nil: Load, mu.Unlock(); unlocking a mutex
\* that is not locked is a fatal error of the Go runtime
UnlockCall(c) ==
    /\ lockCall[c].pc = "held"
    /\ LET mu == lockMap[lockCall[c].user]
       IN  IF mutex[mu] = "free"
           THEN /\ lockCall' = [lockCall EXCEPT ![c].pc = "fatal"]
                /\ mutex' = mutex
           ELSE /\ lockCall' = [lockCall EXCEPT ![c] = IdleCall]
                /\ mutex' = [mutex EXCEPT ![mu] = "free"]
    /\ UNCHANGED <<lockMap, leaked, lockCalls>>
    /\ UNCHANGED <<ledgerVars, loopVars, walletErr>>

(* ------------------------------- deposit ------------------------------- *)
deposit(p) == LockedEntry(p, "deposit", "dCheck")

\* Phase A checks of deposit that accept a referenced withdraw in any status
depositCheckAnyStatus(o, withdrawnTx) ==
    IF getUserAndValidate(o.user, o.currency) /= "ok" THEN getUserAndValidate(o.user, o.currency)
    ELSE IF GetByProviderTxID(o.ptx) /= NoRow THEN "TRANSACTION_ALREADY_EXISTS"
    ELSE IF withdrawnTx = NoRow THEN "TRANSACTION_NOT_FOUND"
    ELSE validateTransactionOwnership(withdrawnTx, o.user)

\* deposit, Phase A checks, in the order of the code
depositCheckResult(o, withdrawnTx) ==
    IF getUserAndValidate(o.user, o.currency) /= "ok" THEN getUserAndValidate(o.user, o.currency)
    ELSE IF GetByProviderTxID(o.ptx) /= NoRow THEN "TRANSACTION_ALREADY_EXISTS"
    ELSE IF withdrawnTx = NoRow THEN "TRANSACTION_NOT_FOUND"
    ELSE IF validateTransactionOwnership(withdrawnTx, o.user) /= "ok" THEN "FORBIDDEN"
    ELSE IF withdrawnTx.status = TransactionStatusCompleted THEN "TRANSACTION_ALREADY_DEPOSITED"
    ELSE validateTransactionStatus(withdrawnTx, TransactionStatusPending)

\* the row a FOR UPDATE read of deposit's Phase A waits for, 0 if none
depositWaitsFor(o) ==
    IF getUserAndValidate(o.user, o.currency) /= "ok" THEN 0
    ELSE IF GetByProviderTxID(o.ptx) /= NoRow THEN GetByProviderTxID(o.ptx).id
    ELSE GetByID(o.parent).id

\* deposit, Phase A reads: Begin, the user, the id FOR UPDATE, the withdraw FOR UPDATE
depositCheck(p) ==
    /\ proc[p].pc = "dCheck"
    /\ LET o == proc[p].op
           withdrawnTx == GetByID(o.parent)
           r == depositCheckResult(o, withdrawnTx)
       IN  \E up \in BOOLEAN :
             /\ DbUp(up)
             /\ up => ~LockedByOther(p, depositWaitsFor(o))
             /\ IF ~up THEN LockedReturn(p, "DATABASE_CONNECTION_ERROR") /\ UNCHANGED rowLock
                ELSE IF r /= "ok" THEN LockedReturn(p, r) /\ UNCHANGED rowLock
                ELSE /\ proc' = [proc EXCEPT ![p].pc = "dCreate", ![p].originalTx = withdrawnTx,
                                   ![p].tx = createTransactionRecord(o.user, TransactionTypeDeposit,
                                        o.amount, o.currency, o.ptx, 0, 0, o.parent)]
                     /\ rowLock' = [rowLock EXCEPT ![p] = withdrawnTx.id]
                     /\ returned' = NoReturn
                     /\ locks' = locks
    /\ UNCHANGED <<txs, wallet, waiting, outbox, opsLeft, dbFlaky>>
    /\ UNCHANGED <<lockVars, loopVars, walletErr, walletCalls>>

\* deposit that goes on to the wallet call with its Phase A transaction still open: the
\* deposit row not committed, the withdraw still locked
depositCreateNoCommit(p) ==
    /\ proc[p].pc = "dCreate"
    /\ proc' = [proc EXCEPT ![p].pc = "dWallet", ![p].tx.id = Len(txs) + 1,
                            ![p].created = Len(txs) + 1]
    /\ returned' = NoReturn
    /\ UNCHANGED <<txs, rowLock, wallet, locks, waiting, outbox, opsLeft, dbFlaky>>
    /\ UNCHANGED <<lockVars, loopVars, walletErr, walletCalls>>

\* deposit, Phase A write: Create and Commit (or Rollback), which releases the withdraw
depositCreate(p) ==
    /\ proc[p].pc = "dCreate"
    /\ rowLock' = [rowLock EXCEPT ![p] = 0]
    /\ IF CreateFails(proc[p].tx)
       THEN /\ LockedReturn(p, "DATABASE_QUERY_ERROR")
            /\ txs' = txs
       ELSE /\ txs' = Create(proc[p].tx)
            /\ proc' = [proc EXCEPT ![p].pc = "dWallet", ![p].tx.id = Len(txs) + 1,
                                    ![p].created = Len(txs) + 1]
            /\ returned' = NoReturn
            /\ locks' = locks
    /\ UNCHANGED <<wallet, waiting, outbox, opsLeft, dbFlaky>>
    /\ UNCHANGED <<lockVars, loopVars, walletErr, walletCalls>>

depositWallet(p) == WalletCall(p, "dWallet", "deposit", "d409", "dResult")

\* handleDeposit409Conflict: getBalance
deposit409(p) == ConflictGetBalance(p, "d409", "dResult")

\* Phase B of deposit that writes the deposit row and never the withdraw
depositResultLeavesWithdraw(p) ==
    /\ proc[p].pc = "dResult"
    /\ txs' = IF proc[p].werr = "e409nobalance" THEN txs
              ELSE Update(txs, creditOutcomeRow(proc[p].tx, proc[p].werr, proc[p].wbal))
    /\ LockedReturn(p, creditResultCode(proc[p].werr))
    /\ UNCHANGED <<rowLock, wallet, waiting, outbox, opsLeft, dbFlaky>>
    /\ UNCHANGED <<lockVars, loopVars, walletErr, walletCalls>>

\* Phase B of deposit that on a failed deposit also marks the withdraw failed
depositResultFailsWithdraw(p) ==
    /\ proc[p].pc = "dResult"
    /\ LET row == creditOutcomeRow(proc[p].tx, proc[p].werr, proc[p].wbal)
       IN  txs' = IF proc[p].werr = "e409nobalance" THEN txs
                  ELSE Update(Update(txs, row), [proc[p].originalTx EXCEPT !.status = row.status])
    /\ LockedReturn(p, creditResultCode(proc[p].werr))
    /\ UNCHANGED <<rowLock, wallet, waiting, outbox, opsLeft, dbFlaky>>
    /\ UNCHANGED <<lockVars, loopVars, walletErr, walletCalls>>

\* deposit, Phase B: the deposit row, and with a completed deposit the withdraw read in
\* Phase A, in one transaction
depositResult(p) ==
    /\ proc[p].pc = "dResult"
    /\ LET row == creditOutcomeRow(proc[p].tx, proc[p].werr, proc[p].wbal)
       IN  txs' = IF proc[p].werr = "e409nobalance" THEN txs
                  ELSE IF row.status = TransactionStatusCompleted
                  THEN Update(Update(txs, row),
                              [proc[p].originalTx EXCEPT !.status = TransactionStatusCompleted])
                  ELSE Update(txs, row)
    /\ LockedReturn(p, creditResultCode(proc[p].werr))
    /\ UNCHANGED <<rowLock, wallet, waiting, outbox, opsLeft, dbFlaky>>
    /\ UNCHANGED <<lockVars, loopVars, walletErr, walletCalls>>

(* ------------------------------- cancel -------------------------------- *)
cancel(p) == LockedEntry(p, "cancel", "cCheck")

\* Phase A checks of cancel that accept an original transaction in any status
cancelCheckAnyStatus(o, originalTx) ==
    IF o.user \notin Users THEN "USER_NOT_FOUND"
    ELSE IF originalTx = NoRow THEN "TRANSACTION_NOT_FOUND"
    ELSE validateTransactionOwnership(originalTx, o.user)

\* cancel, Phase A checks, in the order of the code
cancelCheckResult(o, originalTx) ==
    IF o.user \notin Users THEN "USER_NOT_FOUND"
    ELSE IF originalTx = NoRow THEN "TRANSACTION_NOT_FOUND"
    ELSE IF validateTransactionOwnership(originalTx, o.user) /= "ok" THEN "FORBIDDEN"
    ELSE validateTransactionStatus(originalTx, TransactionStatusPending)

\* cancel, Phase A reads: Begin, the user, the original transaction FOR UPDATE
cancelCheck(p) ==
    /\ proc[p].pc = "cCheck"
    /\ LET o == proc[p].op
           originalTx == GetByProviderTxID(o.ptx)
           r == cancelCheckResult(o, originalTx)
       IN  \E up \in BOOLEAN :
             /\ DbUp(up)
             /\ up => ~LockedByOther(p, originalTx.id)
             /\ IF ~up THEN LockedReturn(p, "DATABASE_CONNECTION_ERROR") /\ UNCHANGED rowLock
                ELSE IF r /= "ok" THEN LockedReturn(p, r) /\ UNCHANGED rowLock
                ELSE /\ proc' = [proc EXCEPT ![p].pc = "cCreate", ![p].originalTx = originalTx,
                                   ![p].tx = createTransactionRecord(o.user, TransactionTypeCancel,
                                        originalTx.amount, originalTx.currency, "cancel_" \o o.ptx,
                                        0, 0, originalTx.id)]
                     /\ rowLock' = [rowLock EXCEPT ![p] = originalTx.id]
                     /\ returned' = NoReturn
                     /\ locks' = locks
    /\ UNCHANGED <<txs, wallet, waiting, outbox, opsLeft, dbFlaky>>
    /\ UNCHANGED <<lockVars, loopVars, walletErr, walletCalls>>

\* Phase A write of cancel that marks the original cancelled first and keeps that
\* write when the insert is refused
cancelCreateKeepsUpdate(p) ==
    /\ proc[p].pc = "cCreate"
    /\ rowLock' = [rowLock EXCEPT ![p] = 0]
    /\ IF CreateFails(proc[p].tx)
       THEN /\ LockedReturn(p, "DATABASE_QUERY_ERROR")
            /\ txs' = Update(txs, [proc[p].originalTx EXCEPT !.status = TransactionStatusCancelled])
       ELSE /\ txs' = Update(Create(proc[p].tx),
                             [proc[p].originalTx EXCEPT !.status = TransactionStatusCancelled])
            /\ proc' = [proc EXCEPT ![p].pc = "cWallet", ![p].tx.id = Len(txs) + 1,
                           ![p].created = Len(txs) + 1,
                           ![p].originalTx.status = TransactionStatusCancelled]
            /\ returned' = NoReturn
            /\ locks' = locks
    /\ UNCHANGED <<wallet, waiting, outbox, opsLeft, dbFlaky>>
    /\ UNCHANGED <<lockVars, loopVars, walletErr, walletCalls>>

\* cancel, Phase A writes: Create the cancel row, set the original to cancelled, Commit
cancelCreate(p) ==
    /\ proc[p].pc = "cCreate"
    /\ rowLock' = [rowLock EXCEPT ![p] = 0]
    /\ IF CreateFails(proc[p].tx)
       THEN /\ LockedReturn(p, "DATABASE_QUERY_ERROR")
            /\ txs' = txs
       ELSE /\ txs' = Update(Create(proc[p].tx),
                             [proc[p].originalTx EXCEPT !.status = TransactionStatusCancelled])
            /\ proc' = [proc EXCEPT ![p].pc = "cWallet", ![p].tx.id = Len(txs) + 1,
                           ![p].created = Len(txs) + 1,
                           ![p].originalTx.status = TransactionStatusCancelled]
            /\ returned' = NoReturn
            /\ locks' = locks
    /\ UNCHANGED <<wallet, waiting, outbox, opsLeft, dbFlaky>>
    /\ UNCHANGED <<lockVars, loopVars, walletErr, walletCalls>>

cancelWallet(p) == WalletCall(p, "cWallet", "deposit", "c409", "cResult")

\* handleCancel409Conflict: getBalance
cancel409(p) == ConflictGetBalance(p, "c409", "cResult")

\* a cancel failure that marks the cancel row failed and leaves the original cancelled
handleCancelFailureNoRebound(table, tx, originalTx) ==
    Update(table, [tx EXCEPT !.status = TransactionStatusFailed])

\* handleCancelFailure: the cancel row failed and the original back to pending
handleCancelFailure(table, tx, originalTx) ==
    Update(Update(table, [tx EXCEPT !.status = TransactionStatusFailed]),
           [originalTx EXCEPT !.status = TransactionStatusPending])

\* cancel, Phase B
cancelResult(p) ==
    /\ proc[p].pc = "cResult"
    /\ txs' = IF proc[p].werr = "e409nobalance" THEN txs
              ELSE IF proc[p].werr \in {"e4xx", "e5xx"}
              THEN handleCancelFailure(txs, proc[p].tx, proc[p].originalTx)
              ELSE Update(txs, creditOutcomeRow(proc[p].tx, proc[p].werr, proc[p].wbal))
    /\ LockedReturn(p, creditResultCode(proc[p].werr))
    /\ UNCHANGED <<rowLock, wallet, waiting, outbox, opsLeft, dbFlaky>>
    /\ UNCHANGED <<lockVars, loopVars, walletErr, walletCalls>>

(* ------------------------------- system -------------------------------- *)
WithdrawStep(p) ==
    \/ withdraw(p) \/ withdrawCheck(p) \/ withdrawCreate(p)
    \/ withdrawWallet(p) \/ withdraw409(p) \/ withdrawResult(p)

DepositStep(p) ==
    \/ deposit(p) \/ depositCheck(p) \/ depositCreate(p)
    \/ depositWallet(p) \/ deposit409(p) \/ depositResult(p)

CancelStep(p) ==
    \/ cancel(p) \/ cancelCheck(p) \/ cancelCreate(p)
    \/ cancelWallet(p) \/ cancel409(p) \/ cancelResult(p)

RevertStep(p) ==
    \/ revertCheck(p) \/ revertOrigin(p) \/ revertCreate(p)
    \/ revertWallet(p) \/ revert409(p) \/ revertResult(p)

WorkerStep(p) == ProcessEvents(p) \/ handleWithdrawRevert(p)

\* the HTTP handlers serving Withdraw, Deposit and Cancel, and the outbox worker
Next ==
    \/ \E p \in Procs :
          WithdrawStep(p) \/ DepositStep(p) \/ CancelStep(p) \/ RevertStep(p) \/ WorkerStep(p)
    \/ \E u \in Users : abandonedLock(u)

Spec == Init /\ [][Next]_vars

\* the row a Withdraw(1, 0.01, "t1", "USD") that the wallet rejected left in the ledger
FailedWithdraw ==
    [EarlierWithdraw EXCEPT !.status = TransactionStatusFailed,
                            !.oldb = InitBalance, !.newb = InitBalance - 10]

\* callers of the use-case method Revert, beside Withdraw and the outbox worker
InitRevert ==
    /\ txs \in {<<>>, <<FailedWithdraw>>}
    /\ rowLock = [p \in Procs |-> 0]
    /\ wallet = [u \in Users |-> InitBalance]
    /\ locks = [u \in Users |-> "free"]
    /\ waiting = [u \in Users |-> 0]
    /\ outbox = <<>>
    /\ proc = [p \in Procs |-> IdleProc]
    /\ returned = NoReturn
    /\ opsLeft = MaxOps
    /\ dbFlaky = FALSE
    /\ LockManagerInit
    /\ NewProcessor
    /\ walletErr = NoWalletErr
    /\ walletCalls = {}

NextRevert == \E p \in Procs : Revert(p) \/ WithdrawStep(p) \/ RevertStep(p) \/ WorkerStep(p)

SpecRevert == InitRevert /\ [][NextRevert]_vars

\* the outbox worker against a database that may refuse transactions, with Withdraw as
\* the producer of events; every goroutine keeps running
InitOutbox ==
    /\ txs = <<>>
    /\ rowLock = [p \in Procs |-> 0]
    /\ wallet = [u \in Users |-> InitBalance]
    /\ locks = [u \in Users |-> "free"]
    /\ waiting = [u \in Users |-> 0]
    /\ outbox = <<>>
    /\ proc = [p \in Procs |-> IdleProc]
    /\ returned = NoReturn
    /\ opsLeft = MaxOps
    /\ dbFlaky = TRUE
    /\ LockManagerInit
    /\ NewProcessor
    /\ walletErr = NoWalletErr
    /\ walletCalls = {}

OutboxStep(p) == WithdrawStep(p) \/ RevertStep(p) \/ WorkerStep(p)

NextOutbox == \E p \in {"c1", Worker} : OutboxStep(p)

SpecOutbox ==
    InitOutbox /\ [][NextOutbox]_vars /\ \A p \in {"c1", Worker} : WF_vars(OutboxStep(p))

\* the outbox worker alone, on the events it finds stored: WITHDRAW_REVERT events for
\* the failed withdraw "t1", with the amounts an event's data may carry
StoredEvents ==
    [user : {1}, amount : Amounts, ptx : {"t1"}, status : {EventStatusPending},
     retry : {0, maxRetries}, error : {""}]

InitEvents ==
    /\ txs = <<FailedWithdraw>>
    /\ rowLock = [p \in Procs |-> 0]
    /\ wallet = [u \in Users |-> InitBalance]
    /\ locks = [u \in Users |-> "free"]
    /\ waiting = [u \in Users |-> 0]
    /\ outbox \in {<<e>> : e \in StoredEvents} \cup {<<e, f>> : e \in StoredEvents, f \in StoredEvents}
    /\ proc = [p \in Procs |-> IdleProc]
    /\ returned = NoReturn
    /\ opsLeft = 0
    /\ dbFlaky \in BOOLEAN
    /\ LockManagerInit
    /\ NewProcessor
    /\ walletErr = NoWalletErr
    /\ walletCalls = {}

NextEvents == RevertStep(Worker) \/ WorkerStep(Worker)

SpecEvents == InitEvents /\ [][NextEvents]_vars

\* the callers of the lock manager alone
InitLock ==
    /\ txs = <<>>
    /\ rowLock = [p \in Procs |-> 0]
    /\ wallet = [u \in Users |-> InitBalance]
    /\ locks = [u \in Users |-> "free"]
    /\ waiting = [u \in Users |-> 0]
    /\ outbox = <<>>
    /\ proc = [p \in Procs |-> IdleProc]
    /\ returned = NoReturn
    /\ opsLeft = MaxOps
    /\ dbFlaky = FALSE
    /\ LockManagerInit
    /\ NewProcessor
    /\ walletErr = NoWalletErr
    /\ walletCalls = {}

NextLock ==
    \/ \E c \in Callers :
          \/ Lock(c) \/ getOrCreateMutex(c) \/ lockGoroutine(c)
          \/ LockReturnsNil(c) \/ LockReturnsError(c) \/ UnlockCall(c)
    \/ \E m \in Mutexes : leakedGoroutine(m)

SpecLock == InitLock /\ [][NextLock]_vars

(* ----------------- Processor: the background loop ---------------------- *)
\* the goroutines of the loop that have not returned yet
LiveWorkers == {w \in DOMAIN workers : workers[w] /= "exited"}

\* StartBackgroundProcessing that starts a goroutine whatever isRunning says
StartUnguarded(c) ==
    /\ stopCall[c] = "idle"
    /\ procMu = ""
    /\ loopCalls > 0
    /\ loopCalls' = loopCalls - 1
    /\ isRunning' = TRUE
    /\ wg' = wg + 1
    /\ workers' = Append(workers, "select")
    /\ UNCHANGED <<ctxDone, procMu, stopCall>>
    /\ UNCHANGED <<ledgerVars, lockVars, walletErr>>

\* StartBackgroundProcessing: under p.mu; a no-op when isRunning, else sets the
\* flag, wg.Add(1) and starts the goroutine, which waits in its select
StartBackgroundProcessing(c) ==
    /\ stopCall[c] = "idle"
    /\ procMu = ""
    /\ loopCalls > 0
    /\ loopCalls' = loopCalls - 1
    /\ IF isRunning
          THEN UNCHANGED <<isRunning, wg, workers>>
          ELSE /\ isRunning' = TRUE
               /\ wg' = wg + 1
               /\ workers' = Append(workers, "select")
    /\ UNCHANGED <<ctxDone, procMu, stopCall>>
    /\ UNCHANGED <<ledgerVars, lockVars, walletErr>>

\* StopBackgroundProcessing up to p.wg.Wait(): under p.mu; a no-op when not
\* running, else p.cancel() and the caller blocks in Wait, still holding p.mu
StopBackgroundProcessing(c) ==
    /\ stopCall[c] = "idle"
    /\ procMu = ""
    /\ loopCalls > 0
    /\ loopCalls' = loopCalls - 1
    /\ IF ~isRunning
          THEN UNCHANGED <<ctxDone, procMu, stopCall>>
          ELSE /\ ctxDone' = TRUE
               /\ procMu' = c
               /\ stopCall' = [stopCall EXCEPT ![c] = "wgWait"]
    /\ UNCHANGED <<isRunning, wg, workers>>
    /\ UNCHANGED <<ledgerVars, lockVars, walletErr>>

\* StopBackgroundProcessing from the return of p.wg.Wait(): clears the flag,
\* releases p.mu (deferred) and returns
wgWait(c) ==
    /\ stopCall[c] = "wgWait"
    /\ wg = 0
    /\ isRunning' = FALSE
    /\ procMu' = ""
    /\ stopCall' = [stopCall EXCEPT ![c] = "idle"]
    /\ UNCHANGED <<ctxDone, wg, workers, loopCalls>>
    /\ UNCHANGED <<ledgerVars, lockVars, walletErr>>

\* the goroutine's select takes case <-ticker.C and calls ProcessEvents (a
\* select with several ready cases picks any of them, so a done context does
\* not exclude it)
tickerC(w) ==
    /\ w \in DOMAIN workers
    /\ workers[w] = "select"
    /\ workers' = [workers EXCEPT ![w] = "pass"]
    /\ UNCHANGED <<isRunning, ctxDone, wg, procMu, stopCall, loopCalls>>
    /\ UNCHANGED <<ledgerVars, lockVars, walletErr>>

\* ProcessEvents returns (with or without an error) and the loop selects again
passReturns(w) ==
    /\ w \in DOMAIN workers
    /\ workers[w] = "pass"
    /\ workers' = [workers EXCEPT ![w] = "select"]
    /\ UNCHANGED <<isRunning, ctxDone, wg, procMu, stopCall, loopCalls>>
    /\ UNCHANGED <<ledgerVars, lockVars, walletErr>>

\* the goroutine's select takes case <-p.ctx.Done(): return, deferred wg.Done()
ctxDoneCase(w) ==
    /\ w \in DOMAIN workers
    /\ workers[w] = "select"
    /\ ctxDone
    /\ workers' = [workers EXCEPT ![w] = "exited"]
    /\ wg' = wg - 1
    /\ UNCHANGED <<isRunning, ctxDone, procMu, stopCall, loopCalls>>
    /\ UNCHANGED <<ledgerVars, lockVars, walletErr>>

\* the Processor's loop and its controllers alone
NextLoop ==
    \/ \E c \in Controllers :
          StartBackgroundProcessing(c) \/ StopBackgroundProcessing(c) \/ wgWait(c)
    \/ \E w \in 1..MaxLoopCalls : tickerC(w) \/ passReturns(w) \/ ctxDoneCase(w)

SpecLoop == InitLock /\ [][NextLoop]_vars

(* ------------------- classification of wallet errors ------------------- *)
\* errors.As(err, &walletErr)
errorsAs(err) == err.isWalletServiceError

\* WalletServiceError.Is4xxError
Is4xxError(e) == e.StatusCode >= 400 /\ e.StatusCode < 500

\* TransactionUseCase.is4xxError on an error value
is4xxErrorOf(err) == errorsAs(err) /\ Is4xxError(err)

\* TransactionUseCase.is409Error on an error value
is409ErrorOf(err) == errorsAs(err) /\ err.StatusCode = 409

\* a branch selection that tests is4xxError before is409Error
walletErrorBranch4xxFirst(err) ==
    IF is4xxErrorOf(err) THEN "ClientError"
    ELSE IF is409ErrorOf(err) THEN "Conflict"
    ELSE "ServerError"

\* the branch withdraw, deposit, cancel and Revert take on a wallet error:
\* if is409Error ... return; if is4xxError ... return; else the 5xx handling
walletErrorBranch(err) ==
    IF is409ErrorOf(err) THEN "Conflict"
    ELSE IF is4xxErrorOf(err) THEN "ClientError"
    ELSE "ServerError"

\* Phase B of an operation whose wallet call returned walletErr takes its branch
takeBranch ==
    /\ walletErr.branch = ""
    /\ walletErr' = [walletErr EXCEPT !.branch = walletErrorBranch(walletErr)]
    /\ UNCHANGED <<ledgerVars, lockVars, loopVars>>

\* the wallet call of the next operation returns another error
nextWalletError ==
    /\ walletErr.branch /= ""
    /\ walletErr' \in WalletErrors
    /\ UNCHANGED <<ledgerVars, lockVars, loopVars>>

InitClassify ==
    /\ txs = <<>>
    /\ rowLock = [p \in Procs |-> 0]
    /\ wallet = [u \in Users |-> InitBalance]
    /\ locks = [u \in Users |-> "free"]
    /\ waiting = [u \in Users |-> 0]
    /\ outbox = <<>>
    /\ proc = [p \in Procs |-> IdleProc]
    /\ returned = NoReturn
    /\ opsLeft = 0
    /\ dbFlaky = FALSE
    /\ LockManagerInit
    /\ isRunning = FALSE
    /\ ctxDone = FALSE
    /\ wg = 0
    /\ workers = <<>>
    /\ procMu = ""
    /\ stopCall = [c \in Controllers |-> "idle"]
    /\ loopCalls = MaxLoopCalls
    /\ walletErr \in WalletErrors
    /\ walletCalls = {}

NextClassify == takeBranch \/ nextWalletError

SpecClassify == InitClassify /\ [][NextClassify]_vars

(* ------------------------------ properties ----------------------------- *)
RowsOfType(t) == {i \in RowIds : txs[i].type = t}
\* rows of type t that reference row w and are in status st
ChildrenIn(w, t, st) == {i \in RowsOfType(t) : txs[i].parent = w /\ txs[i].status = st}
\* rows of type t that reference row w
Children(w, t) == {i \in RowsOfType(t) : txs[i].parent = w}

\* C1: in every reachable state no two rows of the ledger have the same provider_tx_id,
\* whatever interleaving of Withdraw, Deposit, Cancel and Revert produced the state.
C1_UniqueProviderTxID ==
    \A i \in RowIds : \A j \in RowIds : txs[i].ptx = txs[j].ptx => i = j

\* C1 witness: a withdraw lost the race for its id: the index rejected its insert.
C1_Witness ==
    /\ returned.kind = "withdraw" /\ returned.res = "DATABASE_QUERY_ERROR"
    /\ \E i \in RowIds : txs[i].type = TransactionTypeWithdraw

\* C2: every completed withdraw has exactly one completed deposit that references it.
C2_CompletedWithdrawHasOneDeposit ==
    \A w \in RowsOfType(TransactionTypeWithdraw) :
        txs[w].status = TransactionStatusCompleted
            => Cardinality(ChildrenIn(w, TransactionTypeDeposit, TransactionStatusCompleted)) = 1

\* C2 witness: a withdraw is completed and a second deposit against it was refused.
C2_Witness ==
    /\ \E w \in RowsOfType(TransactionTypeWithdraw) : txs[w].status = TransactionStatusCompleted
    /\ returned.kind = "deposit" /\ returned.res = "TRANSACTION_ALREADY_DEPOSITED"

\* C3: for every completed cancel row the withdraw it references is cancelled and no
\* deposit that references that withdraw is completed.
C3_CompletedCancel ==
    \A c \in RowsOfType(TransactionTypeCancel) :
        txs[c].status = TransactionStatusCompleted
            => /\ txs[c].parent \in RowsOfType(TransactionTypeWithdraw)
               /\ txs[txs[c].parent].status = TransactionStatusCancelled
               /\ ChildrenIn(txs[c].parent, TransactionTypeDeposit, TransactionStatusCompleted) = {}

\* C3 witness: a cancel is completed and a deposit against the same withdraw was refused.
C3_Witness ==
    /\ \E c \in RowsOfType(TransactionTypeCancel) : txs[c].status = TransactionStatusCompleted
    /\ returned.kind = "deposit" /\ returned.res = "TRANSACTION_INVALID_STATUS"

\* C4: for every withdraw at most one deposit that references it is completed (completed
\* is final, so at most one ever completes) and at most one cancel row references it.
C4_AtMostOneSettlement ==
    \A w \in RowsOfType(TransactionTypeWithdraw) :
        /\ Cardinality(ChildrenIn(w, TransactionTypeDeposit, TransactionStatusCompleted)) <= 1
        /\ Cardinality(Children(w, TransactionTypeCancel)) <= 1

\* C4 witness: two deposit rows reference one withdraw and one of them is completed.
C4_Witness ==
    \E w \in RowsOfType(TransactionTypeWithdraw) :
        /\ Cardinality(Children(w, TransactionTypeDeposit)) = 2
        /\ Cardinality(ChildrenIn(w, TransactionTypeDeposit, TransactionStatusCompleted)) = 1

\* C5: two operations on the same user give what one of their two serial orders gives.
\* In either serial order nothing else moves the user's balance while a Withdraw runs, so
\* the balance the Withdraw reads again after a 409 is the balance it read at its start
\* less its amount, and its row goes syncing -> pending; any other balance makes the row
\* go syncing -> failed and adds a revert row, which no serial order does.
C5_SameUserOperationsSerial ==
    \A p \in Procs :
        (proc[p].op.kind = "withdraw" /\ proc[p].pc = "wResult" /\ proc[p].werr = "e409")
            => proc[p].wbal = proc[p].balance - proc[p].tx.amount

\* C6: a Withdraw that returns without a row of its own while a row with its
\* provider_tx_id exists returns TRANSACTION_ALREADY_EXISTS and leaves the ledger as it is.
C6_DuplicateWithdrawAlreadyExists ==
    [][\A p \in Clients :
          (/\ proc[p].op.kind = "withdraw" /\ proc[p].pc \in {"wCheck", "wCreate"}
           /\ UniqueViolation(proc[p].op.ptx)
           /\ returned'.p = p)
          => (returned'.res = "TRANSACTION_ALREADY_EXISTS" /\ txs' = txs)]_vars

\* C7: for an origin withdraw in status failed, calls of Revert for it, one after another
\* or at the same time, by Withdraw's 409 handling, the outbox worker or any other caller,
\* leave exactly one row with provider_tx_id "revert_"+origin: there is never more than one
\* such row, and when such a call returns, with or without an error, there is one (the
\* amount being one the ledger accepts, and the database reachable).
RevertSteps == {"rvCheck", "rvOrigin", "rvCreate", "rvWallet", "rv409", "rvResult"}

RevertRowsIn(table, id) == {i \in 1..Len(table) : table[i].ptx = "revert_" \o id}

RevertRows(id) == RevertRowsIn(txs, id)

EventIds == 1..MaxOps

EventSettled(i) ==
    i \in DOMAIN outbox /\ outbox[i].status \in {EventStatusProcessed, EventStatusFailed}

C9_ProcessedMeansReverted ==
    \A e \in 1..Len(outbox) :
        (outbox[e].status = EventStatusProcessed /\ outbox[e].amount /= 0)
            => GetByProviderTxID("revert_" \o outbox[e].ptx).status = TransactionStatusCompleted

\* the rebound of handleCancelFailure: row i goes from cancelled back to pending in the
\* step in which a cancel row that references it goes from syncing to failed
CancelFailureRebound(i) ==
    /\ txs[i].type = TransactionTypeWithdraw
    /\ txs[i].status = TransactionStatusCancelled /\ txs'[i].status = TransactionStatusPending
    /\ \E c \in RowIds :
          /\ txs[c].type = TransactionTypeCancel /\ txs[c].parent = i
          /\ txs[c].status = TransactionStatusSyncing /\ txs'[c].status = TransactionStatusFailed

AllowedTransitions ==
    {<<TransactionStatusSyncing, TransactionStatusPending>>,
     <<TransactionStatusSyncing, TransactionStatusCompleted>>,
     <<TransactionStatusSyncing, TransactionStatusFailed>>,
     <<TransactionStatusPending, TransactionStatusCancelled>>,
     <<TransactionStatusPending, TransactionStatusCompleted>>}

\* C10: every committed change of a row's status is a creation into syncing, one of
\* syncing->pending, syncing->completed, syncing->failed, pending->cancelled,
\* pending->completed, or the cancel-failure rebound of the withdraw to pending; so a
\* completed or failed row never changes status.
C10_StatusTransitions ==
    [][/\ Len(txs') >= Len(txs)
       /\ \A i \in 1..Len(txs') :
             IF i > Len(txs) THEN txs'[i].status = TransactionStatusSyncing
             ELSE \/ txs'[i].status = txs[i].status
                  \/ <<txs[i].status, txs'[i].status>> \in AllowedTransitions
                  \/ CancelFailureRebound(i)]_vars

\* C10 witness: a withdraw is pending again after its cancel failed at the wallet.
C10_Witness ==
    \E w \in RowsOfType(TransactionTypeWithdraw) :
        /\ txs[w].status = TransactionStatusPending
        /\ ChildrenIn(w, TransactionTypeCancel, TransactionStatusFailed) /= {}

\* C11: a child row is inserted only while its parent has the prerequisite status when
\* the inserting transaction commits: a deposit or cancel row only while the row it
\* references is pending, a revert row only while its origin is failed.
PrerequisiteStatus(t) ==
    IF t = TransactionTypeRevert THEN TransactionStatusFailed ELSE TransactionStatusPending

C11_ChildInsertedUnderPrerequisite ==
    [][\A i \in 1..Len(txs') :
          (i > Len(txs) /\ txs'[i].type /= TransactionTypeWithdraw)
              => /\ txs'[i].parent \in RowIds
                 /\ txs[txs'[i].parent].status = PrerequisiteStatus(txs'[i].type)]_vars

\* C11 witness: a revert row was inserted under a failed origin and a deposit row under
\* a withdraw that was pending
C11_Witness ==
    /\ \E r \in RowsOfType(TransactionTypeRevert) :
          txs[txs[r].parent].status = TransactionStatusFailed
    /\ \E d \in RowsOfType(TransactionTypeDeposit) :
          txs[txs[d].parent].type = TransactionTypeWithdraw

\* C12: every deposit, cancel and revert row references an existing row of type
\* withdraw that has the same user_id, whatever user id and provider id the callers pass.
C12_ChildReferencesOwnWithdraw ==
    \A r \in RowIds :
        txs[r].type /= TransactionTypeWithdraw
            => /\ txs[r].parent \in RowIds
               /\ txs[txs[r].parent].type = TransactionTypeWithdraw
               /\ txs[txs[r].parent].user = txs[r].user

\* callers whose Lock(ctx, u) returned nil and that have not called Unlock(u) since
Holders(u) == {c \in Callers : lockCall[c].pc = "held" /\ lockCall[c].user = u}

\* C13: for each user id at most one caller has returned successfully from Lock without
\* a matching Unlock since, also when several callers make the first Lock for the user
\* at the same time: they all end up with the one mutex stored in the map.
C13_LockMutualExclusion ==
    /\ \A u \in Users : Cardinality(Holders(u)) <= 1
    /\ \A c \in Callers :
          lockCall[c].pc \in {"wait", "closed", "held"} => lockCall[c].mu = lockMap[lockCall[c].user]

\* C13 witness: a caller holds the lock of a user through the mutex another caller
\* stored, after both missed the user in the map, and that other caller is waiting
C13_Witness ==
    \E c \in Callers : \E d \in Callers :
        /\ lockCall[c].pc = "held"
        /\ lockCall[c].newMu /= NoMutex /\ lockCall[c].mu = lockCall[d].newMu
        /\ c /= d /\ lockCall[d].pc = "wait" /\ lockCall[d].user = lockCall[c].user

\* the positions of a use-case call from the Begin of Phase A to the end of Phase B
PhaseSteps ==
    {"wCheck", "wCreate", "wWallet", "w409", "wResult",
     "dCheck", "dCreate", "dWallet", "d409", "dResult",
     "cCheck", "cCreate", "cWallet", "c409", "cResult"} \cup RevertSteps

\* C14: a Withdraw, Deposit, Cancel or Revert (called by Withdraw or by the outbox
\* worker) that is anywhere between the Begin of its Phase A and the end of its Phase B
\* holds the per-user lock of its user.
C14_UserLockHeldAcrossPhases ==
    \A p \in Procs : proc[p].pc \in PhaseSteps => locks[proc[p].op.user] = p

\* the positions at which the wallet deposit/withdraw call of a use case is in flight
WalletSteps == {"wWallet", "dWallet", "cWallet", "rvWallet"}

\* the positions at which Phase B writes the outcome
ResultSteps == {"wResult", "dResult", "cResult", "rvResult"}

\* the intent row of the call of p is committed and still syncing
IntentCommitted(p) ==
    /\ proc[p].tx.id \in RowIds
    /\ txs[proc[p].tx.id].ptx = proc[p].tx.ptx
    /\ txs[proc[p].tx.id].status = TransactionStatusSyncing

\* C15: while the wallet deposit/withdraw call of a Withdraw, Deposit, Cancel or Revert
\* is in flight, its syncing intent row is committed and the caller has no local
\* transaction open (it holds no row lock); the call itself writes nothing to the ledger,
\* and a row leaves syncing only in the Phase B step of the call that created it.
C15_WalletCallBetweenTransactions ==
    [][ /\ \A p \in Procs :
              proc[p].pc \in WalletSteps
                  => /\ IntentCommitted(p)
                     /\ rowLock[p] = 0
                     /\ proc'[p] /= proc[p] => (txs' = txs /\ rowLock'[p] = 0)
        /\ \A i \in RowIds :
              (txs[i].status = TransactionStatusSyncing /\ txs'[i].status /= TransactionStatusSyncing)
                  => \E p \in Procs : proc[p].pc \in ResultSteps /\ proc[p].tx.id = i ]_vars

\* C15 witness: the wallet has answered a Cancel and a Withdraw, the balance has moved, and
\* the intent row of the Cancel is still syncing, Phase B not yet done
C15_Witness ==
    \E p \in Procs :
        /\ proc[p].pc = "cResult" /\ proc[p].werr = "ok"
        /\ IntentCommitted(p)
        /\ wallet[proc[p].op.user] = InitBalance
        /\ rowLock[p] = 0

\* rows of user u
RowsOfUser(u) == {i \in RowIds : txs[i].user = u}

\* C16: when a Cancel returns successfully for a withdraw that a successful Withdraw left
\* pending, and the user's ledger holds nothing but that withdraw and its cancel (no other
\* operation on the user in between), the wallet balance is the balance b the Withdraw
\* started from (old_balance of the withdraw row), for the amounts 0 < a <= b.
C16_WithdrawThenCancelRestoresBalance ==
    (returned.kind = "cancel" /\ returned.res = "ok")
        => LET c == returned.tx
               w == txs[c].parent
           IN  (RowsOfUser(txs[c].user) = {w, c} /\ txs[w].amount > 0 /\ txs[w].amount <= txs[w].oldb)
                   => wallet[txs[c].user] = txs[w].oldb

\* C16 witness: Withdraw(1, 0.01, ...) on the starting balance, then its Cancel, both
\* successful: the balance is the starting balance again
C16_Witness ==
    /\ returned.kind = "cancel" /\ returned.res = "ok"
    /\ Len(txs) = 2 /\ txs[1].oldb = InitBalance /\ txs[1].newb = InitBalance - 10
    /\ txs[2].parent = 1 /\ txs[2].status = TransactionStatusCompleted
    /\ wallet[txs[1].user] = InitBalance

Diverged409(p) ==
    /\ proc[p].pc = "wResult" /\ proc[p].werr = "e409"
    /\ proc[p].wbal /= proc[p].balance - proc[p].tx.amount

\* p runs the Revert that its Withdraw started after a diverged 409
RevertAfterDiverged409(p) ==
    /\ proc[p].ret = "withdraw" /\ proc[p].pc \in RevertSteps
    /\ LET origin == GetByProviderTxID(proc[p].op.ptx)
       IN  origin.status = TransactionStatusFailed /\ origin.newb /= origin.oldb - origin.amount

\* Phase B of a diverged 409: the row is committed failed with the balance read before the
\* withdraw and the balance read after the 409, and Revert is entered for the same id
Diverged409Commit(p) ==
    /\ txs'[proc[p].tx.id].status = TransactionStatusFailed
    /\ txs'[proc[p].tx.id].oldb = proc[p].balance
    /\ txs'[proc[p].tx.id].newb = proc[p].wbal
    /\ proc'[p].pc = "rvCheck" /\ proc'[p].op.ptx = proc[p].tx.ptx
    /\ proc'[p].op.user = proc[p].tx.user /\ proc'[p].op.amount = proc[p].tx.amount
    /\ returned' = NoReturn

Matched409(p) ==
    /\ proc[p].pc = "wResult" /\ proc[p].werr = "e409"
    /\ proc[p].wbal = proc[p].balance - proc[p].tx.amount

FailedCancelOfCancelled(table, c) ==
    /\ table[c].type = TransactionTypeCancel
    /\ table[c].status = TransactionStatusFailed
    /\ table[table[c].parent].status = TransactionStatusCancelled

C21_CancelRetryPassesPhaseA ==
    [][\A p \in Clients :
          ( /\ proc[p].pc = "cCreate"
            /\ ChildrenIn(proc[p].originalTx.id, TransactionTypeCancel, TransactionStatusFailed) /= {}
            /\ proc'[p] /= proc[p] )
              => /\ proc'[p].pc = "cWallet"
                 /\ txs'[proc[p].originalTx.id].status = TransactionStatusCancelled]_vars


\* C22: no committed state has a completed deposit row whose withdraw is not completed:
\* the Phase B transaction that completes the deposit (after wallet success, or after a
\* 409 and a successful balance read) completes the referenced withdraw as well.
C22_CompletedDepositCompletesWithdraw ==
    \A d \in RowsOfType(TransactionTypeDeposit) :
        txs[d].status = TransactionStatusCompleted
            => /\ txs[d].parent \in RowsOfType(TransactionTypeWithdraw)
               /\ txs[txs[d].parent].status = TransactionStatusCompleted

\* C22 witness: a Deposit has just returned its completed row and the withdraw is completed
C22_Witness ==
    /\ returned.kind = "deposit" /\ returned.res = "ok"
    /\ txs[returned.tx].type = TransactionTypeDeposit
    /\ txs[returned.tx].status = TransactionStatusCompleted
    /\ txs[txs[returned.tx].parent].status = TransactionStatusCompleted


C24_ZeroDepositAccepted ==
    [][\A p \in Clients :
          ( /\ proc[p].pc = "idle"
            /\ returned'.p = p
            /\ returned'.kind = "deposit"
            /\ returned' /= returned )
              => returned'.res /= validateAmount(0)]_vars


\* C25: at most one goroutine of the background loop is alive at any time; a
\* Start made while running and a Stop made while stopped change nothing; and
\* StopBackgroundProcessing returns only when every goroutine of the loop has
\* left its ProcessEvents pass and exited.
C25_OneWorkerAndStopWaits ==
    /\ [](Cardinality(LiveWorkers) <= 1)
    /\ [][loopCalls' /= loopCalls =>
            /\ (isRunning /\ stopCall' = stopCall)
                  => UNCHANGED <<isRunning, ctxDone, wg, workers>>
            /\ (~isRunning)
                  => /\ UNCHANGED <<ctxDone, stopCall>>
                     /\ \/ UNCHANGED <<isRunning, wg, workers>>
                        \/ /\ isRunning'
                           /\ workers' = Append(workers, "select")]_vars
    /\ [][\A c \in Controllers :
            (stopCall[c] = "wgWait" /\ stopCall'[c] = "idle")
                => /\ \A w \in DOMAIN workers : workers[w] = "exited"
                   /\ workers' = workers
                   /\ ~isRunning']_vars

\* a Stop has cancelled the context and waits while the goroutine is inside a pass
C25_Witness ==
    \E c \in Controllers, w \in DOMAIN workers :
        /\ stopCall[c] = "wgWait"
        /\ procMu = c
        /\ workers[w] = "pass"
        /\ wg = 1


PhaseA == {"wCheck", "wCreate", "dCheck", "dCreate", "cCheck", "cCreate"}

C27_FailureBeforeCommitChangesNothing ==
    [][\A p \in Clients :
          ( \/ /\ proc[p].pc \in PhaseA
               /\ proc'[p] /= proc[p]
               /\ proc'[p].pc \notin {"wWallet", "dWallet", "cWallet"}
            \/ /\ proc[p].pc = "idle"
               /\ proc'[p].pc = "idle"
               /\ opsLeft' /= opsLeft
               /\ returned'.p = p
               /\ returned'.kind \in {"withdraw", "deposit", "cancel"} )
              => /\ txs' = txs
                 /\ outbox' = outbox
                 /\ wallet' = wallet]_vars

\* a Cancel came back with the database's refusal of its insert while rows exist
C27_Witness ==
    /\ returned.kind = "cancel"
    /\ returned.res = "DATABASE_QUERY_ERROR"
    /\ returned.tx = 0
    /\ txs /= <<>>


\* C28: the compensating credits made for a withdraw never exceed what the wallet
\* debited for it.  Where only Withdraw and the Reverts it causes run, on an empty
\* ledger, every credit is compensating, so no user's wallet balance ever exceeds
\* its opening balance.
C28_CompensationWithinDebit ==
    \A u \in Users : wallet[u] <= InitBalance


\* C29: when Withdraw, Deposit, Cancel or Revert returns after its Phase A commit
\* (it created an intent row) and the database accepts every write, that intent
\* row is no longer in status syncing.
C29_ReturnedIntentNotSyncing ==
    returned.tx /= 0 => txs[returned.tx].status /= TransactionStatusSyncing


\* C30: a Lock call that returned an error leaves nothing behind on the user's
\* mutex: a mutex is locked only on behalf of a call whose goroutine acquired it
\* and that returned nil or is still about to return, so the Unlock of that
\* caller frees it for the next Lock.
C30_TimedOutLockLeavesMutexFree ==
    \A m \in Mutexes :
        mutex[m] = "locked"
            => \E c \in Callers : lockCall[c].mu = m /\ lockCall[c].pc \in {"closed", "held"}


DepositRefusal(o) ==
    IF \E i \in RowIds : txs[i].ptx = o.ptx THEN "TRANSACTION_ALREADY_EXISTS"
    ELSE IF o.parent \notin RowIds THEN "TRANSACTION_NOT_FOUND"
    ELSE IF txs[o.parent].user /= o.user THEN "FORBIDDEN"
    ELSE IF txs[o.parent].status = TransactionStatusCompleted THEN "TRANSACTION_ALREADY_DEPOSITED"
    ELSE IF txs[o.parent].status \in
              {TransactionStatusSyncing, TransactionStatusFailed, TransactionStatusCancelled}
         THEN "TRANSACTION_INVALID_STATUS"
    ELSE "none"

C33_DepositRefusals ==
    [][\A p \in Clients :
          ( /\ proc[p].pc = "dCheck"
            /\ proc'[p] /= proc[p]
            /\ proc[p].op.user \in Users
            /\ UserCurrency[proc[p].op.user] = proc[p].op.currency
            /\ returned'.res /= "DATABASE_CONNECTION_ERROR" )
              => IF DepositRefusal(proc[p].op) = "none"
                 THEN proc'[p].pc = "dCreate"
                 ELSE /\ returned'.p = p
                      /\ returned'.kind = "deposit"
                      /\ returned'.res = DepositRefusal(proc[p].op)
                      /\ returned'.tx = 0
                      /\ proc'[p].pc = "idle"
                      /\ txs' = txs
                      /\ wallet' = wallet
                      /\ outbox' = outbox]_vars

\* a Deposit was refused for the status of its withdraw while that withdraw is
\* between its two phases
C33_Witness ==
    /\ returned.kind = "deposit"
    /\ returned.res = "TRANSACTION_INVALID_STATUS"
    /\ returned.tx = 0
    /\ \E w \in RowsOfType(TransactionTypeWithdraw) : txs[w].status = TransactionStatusSyncing
    /\ RowsOfType(TransactionTypeDeposit) = {}


C35_RevertOfUnknownOriginNotFound ==
    [][\A p \in Procs :
          ( /\ proc[p].pc = "rvOrigin"
            /\ proc'[p] /= proc[p]
            /\ \A i \in RowIds : txs[i].ptx /= proc[p].op.ptx )
              => /\ proc'[p].pc /= "crashed"
                 /\ returned'.p = p
                 /\ returned'.res = "TRANSACTION_NOT_FOUND"
                 /\ txs' = txs
                 /\ wallet' = wallet]_vars


C37_OneBranchPerWalletError ==
    walletErr.branch /= ""
        => /\ walletErr.branch \in {"Conflict", "ClientError", "ServerError"}
           /\ walletErr.branch = "Conflict"
                <=> (walletErr.isWalletServiceError /\ walletErr.StatusCode = 409)
           /\ walletErr.branch = "ClientError"
                <=> ( /\ walletErr.isWalletServiceError
                      /\ walletErr.StatusCode \in 400..499
                      /\ walletErr.StatusCode /= 409 )
           /\ walletErr.branch = "ServerError"
                <=> ( \/ ~walletErr.isWalletServiceError
                      \/ walletErr.StatusCode \notin 400..499 )
           /\ (walletErr.isWalletServiceError /\ walletErr.StatusCode = 409)
                => is4xxErrorOf(walletErr)

\* the 409 of a WalletServiceError went to the Conflict branch
C37_Witness ==
    /\ walletErr.isWalletServiceError
    /\ walletErr.StatusCode = 409
    /\ walletErr.branch = "Conflict"


\* C38: the coordinator sends at most one wallet deposit / withdraw call per
\* reference, the reference being the provider_tx_id of the intent row of the
\* call: a step that sends a call sends one whose reference was never sent
\* before, for an intent row that is stored under that provider_tx_id; and the
\* wallet changes only in such a step.
WalletPcs == {"wWallet", "dWallet", "cWallet", "rvWallet"}

C38_OneWalletCallPerRow ==
    [][ /\ \A p \in Procs :
              (proc[p].pc \in WalletPcs /\ proc'[p] /= proc[p])
                  => /\ Reference(p) \notin walletCalls
                     /\ walletCalls' = walletCalls \cup {Reference(p)}
                     /\ proc[p].tx.id \in RowIds
                     /\ txs[proc[p].tx.id].ptx = Reference(p)
        /\ (wallet' /= wallet \/ walletCalls' /= walletCalls)
              => \E p \in Procs : proc[p].pc \in WalletPcs /\ proc'[p] /= proc[p] ]_vars

\* a repeated Cancel came back without a row of its own after the call of the
\* first Cancel had been sent
C38_Witness ==
    /\ returned.kind = "cancel"
    /\ returned.tx = 0
    /\ ("cancel_" \o returned.ptx) \in walletCalls
    /\ Cardinality(RowsOfType(TransactionTypeCancel)) = 1


\* C39: a StartBackgroundProcessing made after a StopBackgroundProcessing has
\* returned resumes draining: the goroutine it starts runs under a context that
\* is not done (under a done context ProcessEvents returns at checkCancellation
\* and the loop exits at its select), so a live goroutine under a done context
\* exists only while a StopBackgroundProcessing is waiting for it.
C39_RestartedLoopDrains ==
    (LiveWorkers /= {} /\ ctxDone) => \E c \in Controllers : stopCall[c] = "wgWait"

====
